---- MODULE Spec2Model ----
(***************************************************************************)
(* Model of dugong/t5.py: the BatchEncodingDataset wrapper, the setup      *)
(* routine and the train_torch epoch loop.  The external framework         *)
(* (tokenizer, trainer, model weights) is opaque: its results are inputs   *)
(* drawn from small sets, and any statement may raise.                     *)
(***************************************************************************)
EXTENDS Integers, Sequences, FiniteSets, TLC

\* ---------------------------------------------------------------- bounds
MaxLen == 2        \* longest encoding array handed to a wrapper directly
MaxTok == 1        \* token ids are 0..MaxTok
MaxExamples == 2   \* most examples in a data file
MaxMetric == 1     \* metric values are 0..MaxMetric

\* num_train_epochs=2 in the Seq2SeqTrainingArguments call
NumTrainEpochs == 2

VARIABLES
  \* --- a wrapper used on its own (class BatchEncodingDataset)
  encodings,      \* the batch encoding handed to the constructor
  dataset,        \* the wrapper object, None before construction
  result,         \* what the last __len__ / __getitem__ call returned or raised
  \* --- train_torch(train_path, test_path, source_lang, target_lang, size)
  argv,           \* the arguments of the call
  pc,             \* the statement about to run
  failedAt,       \* the statement that raised, "" while none has
  locals,         \* the local variables of setup()
  bundle,         \* the tuple setup() returned, as unpacked by train_torch
  training_args,  \* the Seq2SeqTrainingArguments object
  task,           \* the rich progress task
  it,             \* how many items the for loop's range iterator has yielded
  epoch,          \* the loop variable
  trainer,        \* the trainer of the current epoch
  metrics,        \* what trainer.evaluate() returned
  console,        \* what has been printed on the console
  heap,           \* weights of the model objects, by reference
  log             \* history: the calls completed so far, in order

dsVars == <<encodings, dataset, result>>
drvVars == <<argv, pc, failedAt, locals, bundle, training_args, task, it, epoch,
             trainer, metrics, console, heap, log>>
vars == <<encodings, dataset, result, argv, pc, failedAt, locals, bundle,
          training_args, task, it, epoch, trainer, metrics, console, heap, log>>

None == [none |-> TRUE]

\* ------------------------------------------------------------ data values
Tok == 0..MaxTok
\* one encoded example field: a list of token ids
Rows == {<<t>> : t \in Tok}

SeqsUpTo(S, n) == UNION {[1..k -> S] : k \in 0..n}

\* any object with the three attributes, aligned or not
AnyEncodings ==
  [input_ids : SeqsUpTo(Rows, MaxLen),
   attention_mask : SeqsUpTo(Rows, MaxLen),
   labels : SeqsUpTo(Rows, MaxLen)]

Aligned(e) ==
  /\ Len(e.attention_mask) = Len(e.input_ids)
  /\ Len(e.labels) = Len(e.input_ids)

\* torch.tensor(list of ints): an int64 tensor holding the same values
torch_tensor(row) == [dtype |-> "int64", shape |-> Len(row), data |-> row]

\* Python list indexing with a non-negative index (0-based)
InRange(list, idx) == idx >= 0 /\ idx < Len(list)
At(list, idx) == list[idx + 1]

\* --------------------------------------------- class BatchEncodingDataset
BatchEncodingDataset_init(enc) == [encodings |-> enc]

\* __len__: (self after the call, returned value)
BatchEncodingDataset_len(self) ==
  [self |-> self, ret |-> Len(self.encodings.input_ids)]

BatchEncodingDataset_getitem_shifted(self, idx) ==
  LET e == self.encodings IN
  IF ~InRange(e.input_ids, idx) \/ ~InRange(e.attention_mask, idx)
       \/ ~InRange(e.labels, idx)
  THEN [self |-> self, raised |-> "IndexError", ret |-> None]
  ELSE [self |-> self, raised |-> "",
        ret |-> [input_ids |-> torch_tensor(At(e.input_ids, idx)),
                 attention_mask |-> torch_tensor(At(e.attention_mask, idx)),
                 labels |-> torch_tensor(At(e.labels, 0))]]

\* __getitem__: (self after the call, exception raised, returned record)
BatchEncodingDataset_getitem(self, idx) ==
  LET e == self.encodings IN
  IF ~InRange(e.input_ids, idx) \/ ~InRange(e.attention_mask, idx)
       \/ ~InRange(e.labels, idx)
  THEN [self |-> self, raised |-> "IndexError", ret |-> None]
  ELSE [self |-> self, raised |-> "",
        ret |-> [input_ids |-> torch_tensor(At(e.input_ids, idx)),
                 attention_mask |-> torch_tensor(At(e.attention_mask, idx)),
                 labels |-> torch_tensor(At(e.labels, idx))]]

\* ------------------------------------------------- the wrapper on its own
EmptyEncodings == [input_ids |-> <<>>, attention_mask |-> <<>>, labels |-> <<>>]
NoResult == [op |-> "none", idx |-> 0, raised |-> "", ret |-> None]

\* dataset = BatchEncodingDataset(encodings)
DS_Construct ==
  /\ dataset = None
  /\ dataset' = BatchEncodingDataset_init(encodings)
  /\ UNCHANGED <<encodings, result>>
  /\ UNCHANGED drvVars

\* len(dataset)
DS_Len ==
  /\ dataset # None
  /\ LET r == BatchEncodingDataset_len(dataset) IN
       /\ dataset' = r.self
       /\ result' = [op |-> "len", idx |-> 0, raised |-> "", ret |-> r.ret]
  /\ UNCHANGED encodings
  /\ UNCHANGED drvVars

\* dataset[idx]
DS_GetItem ==
  /\ dataset # None
  /\ \E idx \in 0..MaxLen :
       LET r == BatchEncodingDataset_getitem(dataset, idx) IN
         /\ dataset' = r.self
         /\ result' = [op |-> "getitem", idx |-> idx, raised |-> r.raised,
                       ret |-> r.ret]
  /\ UNCHANGED encodings
  /\ UNCHANGED drvVars

\* --------------------------------------------------- external collaborators
\* A path stands for the file it names: whether it exists, and how many
\* translation pairs it holds.
Paths ==
  {[exists |-> FALSE, examples |-> 0]}
    \cup {[exists |-> TRUE, examples |-> n] : n \in 0..MaxExamples}

Sizes == {"small", "base", "huge"}
KnownCheckpoints == {[family |-> "t5", size |-> "small"],
                     [family |-> "t5", size |-> "base"]}

\* Preprocessor.preprocess on one file: one aligned encoded example per pair
Preprocessor_preprocess(path) ==
  [input_ids |-> [i \in 1..path.examples |-> <<i % (MaxTok + 1)>>],
   attention_mask |-> [i \in 1..path.examples |-> <<1>>],
   labels |-> [i \in 1..path.examples |-> <<(i + 1) % (MaxTok + 1)>>]]

Preprocessor_get_tokenizer == [name |-> "T5Tokenizer", pad_token_id |-> 0]
Preprocessor_get_checkpoint(size) == [family |-> "t5", size |-> size]

\* the mappings trainer.evaluate() may return: an ordered dict with distinct keys
MetricNames == {"eval_loss", "eval_bleu"}
MetricsMappings ==
  {m \in SeqsUpTo(MetricNames \X (0..MaxMetric), Cardinality(MetricNames)) :
     \A i, j \in 1..Len(m) : i # j => m[i][1] # m[j][1]}

\* str(metric_value) for a non-negative integer
Digits == <<"0", "1", "2", "3", "4", "5", "6", "7", "8", "9">>
RECURSIVE str(_)
str(n) == IF n < 10 THEN Digits[n + 1] ELSE str(n \div 10) \o Digits[(n % 10) + 1]

\* range(n)
Range(n) == [i \in 1..n |-> i - 1]

\* the weights behind a model reference
Deref(h, m) == IF m = None THEN -1 ELSE h[m.ref]

\* ------------------------------------------------------------- statements
SetupStmts == {"preprocess", "collator", "from_pretrained", "wrap"}

\* the statements of the loop body, in program order
BodyEvalFirst == <<"construct", "evaluate", "update", "train", "render">>

Body == <<"construct", "train", "update", "evaluate", "render">>

BodyStmts == {Body[i] : i \in 1..Len(Body)}
Fallible == SetupStmts \cup {"training_args", "add_task", "complete"} \cup BodyStmts

\* the statement after s within the loop body; the loop head after the last
After(s) ==
  LET i == CHOOSE k \in 1..Len(Body) : Body[k] = s IN
  IF i < Len(Body) THEN Body[i + 1] ELSE "for"

RaiseSetupReturns(s) == IF s \in SetupStmts THEN "wrap" ELSE "failed"

RaiseLoopContinues(s) == IF s \in BodyStmts THEN "for" ELSE "failed"

\* where control goes when statement s raises: nothing catches it
Raise(s) == "failed"

\* ------------------------------------------------------------------ setup
NoLocals ==
  [train_dataset |-> None, test_dataset |-> None, tokenizer |-> None,
   checkpoint |-> None, evaluate |-> None, data_collator |-> None,
   model |-> None]

\* preprocessor = Preprocessor(...); train_dataset, test_dataset = preprocess(...)
Setup_preprocess(l, a) ==
  [l EXCEPT !.train_dataset = Preprocessor_preprocess(a.train_path),
            !.test_dataset = Preprocessor_preprocess(a.test_path)]

\* tokenizer, checkpoint, evaluate, data_collator
Setup_collator(l, a) ==
  LET tok == Preprocessor_get_tokenizer
      ckpt == Preprocessor_get_checkpoint(a.size) IN
  [l EXCEPT !.tokenizer = tok,
            !.checkpoint = ckpt,
            !.evaluate = [tokenizer |-> tok, metric |-> "sacrebleu"],
            !.data_collator = [tokenizer |-> tok, model |-> ckpt, padding |-> TRUE,
                               label_pad_token_id |-> tok.pad_token_id]]

Setup_wrap_swapped(l) ==
  [l EXCEPT !.train_dataset = BatchEncodingDataset_init(l.test_dataset),
            !.test_dataset = BatchEncodingDataset_init(l.train_dataset)]

\* train_dataset = BatchEncodingDataset(train_dataset); same for test_dataset
Setup_wrap(l) ==
  [l EXCEPT !.train_dataset = BatchEncodingDataset_init(l.train_dataset),
            !.test_dataset = BatchEncodingDataset_init(l.test_dataset)]

\* the returned tuple
Setup_return(l) ==
  <<l.train_dataset, l.test_dataset, l.tokenizer, l.checkpoint, l.evaluate,
    l.data_collator, l.model>>

\* the tuple unpacked into train_torch's variables
Unpack(t) ==
  [train_dataset |-> t[1], test_dataset |-> t[2], tokenizer |-> t[3],
   checkpoint |-> t[4], evaluate |-> t[5], data_collator |-> t[6],
   model |-> t[7]]

\* ------------------------------------------------------------ train_torch
\* training_args = Seq2SeqTrainingArguments(...)
Seq2SeqTrainingArguments ==
  [output_dir |-> "dugong/models/", evaluation_strategy |-> "epoch",
   learning_rate |-> "2e-5", per_device_train_batch_size |-> 4,
   per_device_eval_batch_size |-> 4, weight_decay |-> "0.01",
   save_total_limit |-> 3, num_train_epochs |-> NumTrainEpochs,
   predict_with_generate |-> TRUE, fp16 |-> FALSE]

\* progress.add_task("[cyan]Training...", total=...)
Progress_add_task(args) ==
  [description |-> "[cyan]Training...", total |-> args.num_train_epochs,
   completed |-> 0]

Progress_update_twice(t, advance) == [t EXCEPT !.completed = @ + advance + advance]

\* progress.update(task, advance=...)
Progress_update(t, advance) == [t EXCEPT !.completed = @ + advance]

EpochRangeInclusive(args) == Range(args.num_train_epochs + 1)

\* range(training_args.num_train_epochs)
EpochRange(args) == Range(args.num_train_epochs)

Seq2SeqTrainer_init_eval_on_train(b, args) ==
  [model |-> b.model, args |-> args, train_dataset |-> b.train_dataset,
   eval_dataset |-> b.train_dataset, tokenizer |-> b.tokenizer,
   data_collator |-> b.data_collator, compute_metrics |-> b.evaluate]

\* trainer = Seq2SeqTrainer(model=model, args=training_args, ...)
Seq2SeqTrainer_init(b, args) ==
  [model |-> b.model, args |-> args, train_dataset |-> b.train_dataset,
   eval_dataset |-> b.test_dataset, tokenizer |-> b.tokenizer,
   data_collator |-> b.data_collator, compute_metrics |-> b.evaluate]

MetricsRows_skip_first(m) ==
  [i \in 1..(Len(m) - 1) |-> <<m[i + 1][1], str(m[i + 1][2])>>]

\* for metric_name, metric_value in metrics.items(): add_row(name, str(value))
MetricsRows(m) == [i \in 1..Len(m) |-> <<m[i][1], str(m[i][2])>>]

\* Panel(Table(...), title="Evaluation Metrics")
MetricsPanel(m) ==
  [kind |-> "panel", title |-> "Evaluation Metrics",
   text |-> "",
   table |-> [title |-> "Metrics", columns |-> <<"Metric", "Value">>,
              rows |-> MetricsRows(m)]]

Text(t) == [kind |-> "text", title |-> "", text |-> t,
            table |-> [title |-> "", columns |-> <<>>, rows |-> <<>>]]

SuccessMessage == Text("[green]Training complete![/green]")

Event(op, info) == [op |-> op, epoch |-> epoch, info |-> info]

\* ---- the statements, one action each
Preprocess ==
  /\ pc = "preprocess"
  /\ argv.train_path.exists /\ argv.test_path.exists
  /\ locals' = Setup_preprocess(locals, argv)
  /\ pc' = "collator"
  /\ UNCHANGED <<argv, failedAt, bundle, training_args, task, it, epoch, trainer,
                 metrics, console, heap, log>>
  /\ UNCHANGED dsVars

Collator ==
  /\ pc = "collator"
  /\ locals' = Setup_collator(locals, argv)
  /\ pc' = "from_pretrained"
  /\ UNCHANGED <<argv, failedAt, bundle, training_args, task, it, epoch, trainer,
                 metrics, console, heap, log>>
  /\ UNCHANGED dsVars

\* model = T5ForConditionalGeneration.from_pretrained(checkpoint)
FromPretrained ==
  /\ pc = "from_pretrained"
  /\ locals.checkpoint \in KnownCheckpoints
  /\ heap' = Append(heap, 0)
  /\ locals' = [locals EXCEPT !.model = [ref |-> Len(heap) + 1]]
  /\ pc' = "wrap"
  /\ UNCHANGED <<argv, failedAt, bundle, training_args, task, it, epoch, trainer,
                 metrics, console, log>>
  /\ UNCHANGED dsVars

\* the two wrappers, the return, and the unpacking in train_torch
Wrap ==
  /\ pc = "wrap"
  /\ locals' = Setup_wrap(locals)
  /\ bundle' = Unpack(Setup_return(locals'))
  /\ pc' = "training_args"
  /\ UNCHANGED <<argv, failedAt, training_args, task, it, epoch, trainer,
                 metrics, console, heap, log>>
  /\ UNCHANGED dsVars

TrainingArgs ==
  /\ pc = "training_args"
  /\ training_args' = Seq2SeqTrainingArguments
  /\ pc' = "add_task"
  /\ UNCHANGED <<argv, failedAt, locals, bundle, task, it, epoch, trainer,
                 metrics, console, heap, log>>
  /\ UNCHANGED dsVars

\* with Progress() as progress: add_task; print("\n"); console = Console()
AddTask ==
  /\ pc = "add_task"
  /\ task' = Progress_add_task(training_args)
  /\ console' = Append(console, Text("\n\n"))
  /\ it' = 0
  /\ pc' = "for"
  /\ UNCHANGED <<argv, failedAt, locals, bundle, training_args, epoch, trainer,
                 metrics, heap, log>>
  /\ UNCHANGED dsVars

\* for epoch in range(training_args.num_train_epochs):
ForEpoch ==
  /\ pc = "for"
  /\ LET r == EpochRange(training_args) IN
       IF it < Len(r)
       THEN /\ epoch' = r[it + 1]
            /\ it' = it + 1
            /\ pc' = Body[1]
       ELSE /\ pc' = "complete"
            /\ UNCHANGED <<epoch, it>>
  /\ UNCHANGED <<argv, failedAt, locals, bundle, training_args, task, trainer,
                 metrics, console, heap, log>>
  /\ UNCHANGED dsVars

Construct ==
  /\ pc = "construct"
  /\ trainer' = Seq2SeqTrainer_init(bundle, training_args)
  /\ log' = Append(log, Event("construct", Deref(heap, trainer'.model)))
  /\ pc' = After("construct")
  /\ UNCHANGED <<argv, failedAt, locals, bundle, training_args, task, it, epoch,
                 metrics, console, heap>>
  /\ UNCHANGED dsVars

\* trainer.train(): updates the weights of the trainer's model in place
Train ==
  /\ pc = "train"
  /\ heap' = [heap EXCEPT ![trainer.model.ref] = @ + 1]
  /\ log' = Append(log, Event("train", heap'[trainer.model.ref]))
  /\ pc' = After("train")
  /\ UNCHANGED <<argv, failedAt, locals, bundle, training_args, task, it, epoch,
                 trainer, metrics, console>>
  /\ UNCHANGED dsVars

Update ==
  /\ pc = "update"
  /\ task' = Progress_update(task, 1)
  /\ log' = Append(log, Event("update", task'.completed))
  /\ pc' = After("update")
  /\ UNCHANGED <<argv, failedAt, locals, bundle, training_args, it, epoch,
                 trainer, metrics, console, heap>>
  /\ UNCHANGED dsVars

\* metrics = trainer.evaluate()
Evaluate ==
  /\ pc = "evaluate"
  /\ \E m \in MetricsMappings :
       /\ metrics' = m
       /\ log' = Append(log, Event("evaluate", m))
  /\ pc' = After("evaluate")
  /\ UNCHANGED <<argv, failedAt, locals, bundle, training_args, task, it, epoch,
                 trainer, console, heap>>
  /\ UNCHANGED dsVars

\* the metrics table, built and printed
Render ==
  /\ pc = "render"
  /\ console' = Append(console, MetricsPanel(metrics))
  /\ log' = Append(log, Event("render", Len(console')))
  /\ pc' = After("render")
  /\ UNCHANGED <<argv, failedAt, locals, bundle, training_args, task, it, epoch,
                 trainer, metrics, heap>>
  /\ UNCHANGED dsVars

\* console.print("[green]Training complete![/green]")
Complete ==
  /\ pc = "complete"
  /\ console' = Append(console, SuccessMessage)
  /\ pc' = "done"
  /\ UNCHANGED <<argv, failedAt, locals, bundle, training_args, task, it, epoch,
                 trainer, metrics, heap, log>>
  /\ UNCHANGED dsVars

\* the statement at pc raises (missing file, unknown checkpoint, out of
\* memory, ...): its assignment does not happen
Fail ==
  /\ pc \in Fallible
  /\ failedAt' = pc
  /\ pc' = Raise(pc)
  /\ UNCHANGED <<argv, locals, bundle, training_args, task, it, epoch, trainer,
                 metrics, console, heap, log>>
  /\ UNCHANGED dsVars

\* --------------------------------------------------------- specifications
Args ==
  [train_path : Paths, test_path : Paths, source_lang : {"en"},
   target_lang : {"fr"}, size : Sizes]

MainArgs ==
  [train_path |-> [exists |-> TRUE, examples |-> MaxExamples],
   test_path |-> [exists |-> TRUE, examples |-> 0],
   source_lang |-> "en", target_lang |-> "fr", size |-> "small"]

DriverStart(a) ==
  /\ argv = a
  /\ pc = "preprocess"
  /\ failedAt = ""
  /\ locals = NoLocals
  /\ bundle = None
  /\ training_args = None
  /\ task = None
  /\ it = 0
  /\ epoch = 0
  /\ trainer = None
  /\ metrics = <<>>
  /\ console = <<>>
  /\ heap = <<>>
  /\ log = <<>>

\* a call of train_torch
Init ==
  /\ encodings = EmptyEncodings
  /\ dataset = None
  /\ result = NoResult
  /\ \E a \in Args : DriverStart(a)

Next ==
  \/ Preprocess \/ Collator \/ FromPretrained \/ Wrap \/ TrainingArgs
  \/ AddTask \/ ForEpoch \/ Construct \/ Train \/ Update \/ Evaluate
  \/ Render \/ Complete \/ Fail

Spec == Init /\ [][Next]_vars

\* a wrapper built directly from any encodings object
InitDataset ==
  /\ encodings \in AnyEncodings
  /\ dataset = None
  /\ result = NoResult
  /\ DriverStart(MainArgs)

NextDataset == DS_Construct \/ DS_Len \/ DS_GetItem

SpecDataset == InitDataset /\ [][NextDataset]_vars

\* ------------------------------------------------------------- properties
\* how many calls of the kind op have completed
Count(op) == Cardinality({i \in 1..Len(log) : log[i].op = op})

\* the events of the kind op, in order
Events(op) == SelectSeq(log, LAMBDA e : e.op = op)

\* the metrics panels printed so far, in order
Panels == SelectSeq(console, LAMBDA o : o.kind = "panel")

SuccessCount == Cardinality({i \in 1..Len(console) : console[i] = SuccessMessage})

\* C1: over three aligned arrays of common length N, __len__ returns N,
\* __getitem__(i) for 0 <= i < N returns the three values at i, and neither
\* call changes the wrapped encodings.
C1_LenAndGetItem ==
  (dataset # None /\ Aligned(encodings)) =>
    LET N == Len(encodings.labels) IN
    /\ dataset.encodings = encodings
    /\ result.op = "len" => result.ret = N
    /\ (result.op = "getitem" /\ result.idx < N) =>
         /\ result.raised = ""
         /\ result.ret.input_ids.data = encodings.input_ids[result.idx + 1]
         /\ result.ret.attention_mask.data = encodings.attention_mask[result.idx + 1]
         /\ result.ret.labels.data = encodings.labels[result.idx + 1]

C1_Witness ==
  /\ dataset # None /\ Aligned(encodings)
  /\ Len(encodings.input_ids) = MaxLen
  /\ result.op = "getitem" /\ result.idx = MaxLen - 1 /\ result.raised = ""
  /\ encodings.labels[MaxLen] # encodings.labels[1]
  /\ encodings.labels[MaxLen] # encodings.input_ids[MaxLen]

\* C3: arrays of different lengths are rejected when the wrapper is built:
\* no wrapper ever exists over mismatched arrays.
C3_MismatchRejected == ~Aligned(encodings) => dataset = None

\* C2: a run in which nothing fails makes exactly num_train_epochs train()
\* calls and as many evaluate() calls; no run makes more.
C2_ExactlyNumEpochs ==
  /\ Count("train") <= NumTrainEpochs
  /\ Count("evaluate") <= NumTrainEpochs
  /\ pc \in {"complete", "done"} =>
       /\ Count("train") = NumTrainEpochs
       /\ Count("evaluate") = NumTrainEpochs

C2_Witness ==
  pc = "done" /\ failedAt = "" /\ Count("train") = NumTrainEpochs
    /\ Count("evaluate") = NumTrainEpochs

\* C4: the k-th panel printed holds one row per entry of the mapping the k-th
\* evaluation returned, with the metric's name and its value, and there is
\* one panel per evaluated epoch.
C4_OneRowPerMetric ==
  /\ Len(Panels) = Count("render")
  /\ Len(Panels) <= Count("evaluate")
  /\ Count("evaluate") <= Len(Panels) + 1
  /\ pc = "done" => Len(Panels) = NumTrainEpochs
  /\ \A k \in 1..Len(Panels) :
       LET rows == Panels[k].table.rows
           m == Events("evaluate")[k].info IN
       /\ Len(rows) = Len(m)
       /\ \A j \in 1..Len(m) : rows[j] = <<m[j][1], str(m[j][2])>>
       /\ \A j \in 1..Len(m) :
            Cardinality({r \in 1..Len(rows) : rows[r][1] = m[j][1]}) = 1

C4_Witness ==
  /\ pc = "done"
  /\ Len(Panels) = NumTrainEpochs
  /\ Len(Panels[1].table.rows) = Cardinality(MetricNames)
  /\ Panels[1].table.rows[1][2] # Panels[1].table.rows[2][2]
  /\ Panels[2].table.rows # Panels[1].table.rows

\* C5: the wrappers setup returns have the lengths of what the preprocessor
\* produced for the train file and for the test file, in that order.
C5_WrapperLengths ==
  bundle # None =>
    /\ BatchEncodingDataset_len(bundle.train_dataset).ret
         = Len(Preprocessor_preprocess(argv.train_path).input_ids)
    /\ BatchEncodingDataset_len(bundle.test_dataset).ret
         = Len(Preprocessor_preprocess(argv.test_path).input_ids)
    /\ BatchEncodingDataset_len(bundle.train_dataset).ret = argv.train_path.examples
    /\ BatchEncodingDataset_len(bundle.test_dataset).ret = argv.test_path.examples

C5_Witness ==
  /\ bundle # None
  /\ argv.train_path.examples = MaxExamples
  /\ argv.test_path.examples = 1
  /\ BatchEncodingDataset_len(bundle.train_dataset).ret = MaxExamples

\* C6: when a statement of setup raises, no bundle reaches train_torch, no
\* trainer is built and no epoch runs.
C6_SetupFailureAborts ==
  failedAt \in SetupStmts =>
    /\ pc = "failed"
    /\ bundle = None
    /\ training_args = None
    /\ trainer = None
    /\ log = <<>>
    /\ console = <<>>

C6_Witness ==
  /\ failedAt = "from_pretrained" /\ pc = "failed"
  /\ argv.size \notin {"small", "base"}
  /\ locals.train_dataset # None

\* C7: construct, train, evaluate and render happen in this order within an
\* epoch, and epoch k+1's trainer is built after epoch k's metrics are printed.
Cycle == <<"construct", "train", "evaluate", "render">>
CycleLog == SelectSeq(log, LAMBDA e : e.op \in {Cycle[i] : i \in 1..Len(Cycle)})

C7_StepOrder ==
  \A i \in 1..Len(CycleLog) :
    /\ CycleLog[i].op = Cycle[((i - 1) % Len(Cycle)) + 1]
    /\ CycleLog[i].epoch = (i - 1) \div Len(Cycle)

C7_Witness ==
  /\ Len(CycleLog) = NumTrainEpochs * Len(Cycle)
  /\ CycleLog[Len(Cycle)].op = "render"
  /\ CycleLog[Len(Cycle) + 1].op = "construct"
  /\ CycleLog[Len(Cycle) + 1].epoch = 1

\* C8 as stated: the counter always equals the number of epochs whose
\* training, evaluation and rendering have all completed.
C8_CounterIsCompletedEpochs ==
  task # None =>
    /\ task.completed = Count("render")
    /\ task.completed <= NumTrainEpochs

\* C8 as amended: the counter is advanced once per epoch, right after the
\* epoch's training pass: it equals the number of epochs whose training pass
\* and progress update are done, which is the number of completed epochs or
\* one more, and never exceeds num_train_epochs.
C8_CounterIsTrainedEpochs ==
  task # None =>
    /\ task.completed = Count("update")
    /\ task.completed <= Count("train")
    /\ Count("train") <= task.completed + 1
    /\ Count("render") <= task.completed
    /\ task.completed <= Count("render") + 1
    /\ pc \in {"evaluate", "render"} => task.completed = Count("render") + 1
    /\ task.completed <= NumTrainEpochs
    /\ task.total = NumTrainEpochs

C8_Witness ==
  /\ task # None
  /\ pc = "evaluate" /\ epoch = 1
  /\ task.completed = NumTrainEpochs
  /\ Count("render") = 1

\* C9: once a statement has raised the run is over: nothing more is executed
\* and the success message is not printed; the message is printed once, after
\* all num_train_epochs epochs.
C9_State ==
  /\ failedAt # "" => (pc = "failed" /\ SuccessCount = 0)
  /\ pc = "failed" => failedAt # ""
  /\ SuccessCount <= 1
  /\ SuccessCount = 1 =>
       /\ pc = "done"
       /\ Count("render") = NumTrainEpochs
       /\ console[Len(console)] = SuccessMessage
  /\ pc = "done" => SuccessCount = 1

C9_FailureTerminates ==
  /\ []C9_State
  /\ [][failedAt # "" => UNCHANGED vars]_vars
  /\ [][failedAt' # failedAt => (log' = log /\ console' = console)]_vars

C9_Witness ==
  /\ pc = "failed" /\ failedAt = "evaluate" /\ epoch = 1
  /\ Len(Panels) = 1

\* C10: every trainer is built over the one model setup loaded, which carries
\* the weights the previous epoch left, and over the same arguments, wrappers,
\* tokenizer and collator, which stay what setup and startup made them.
C10_Frozen(b) ==
  /\ b.model = [ref |-> 1]
  /\ b.train_dataset.encodings = Preprocessor_preprocess(argv.train_path)
  /\ b.test_dataset.encodings = Preprocessor_preprocess(argv.test_path)
  /\ b.tokenizer = Preprocessor_get_tokenizer
  /\ b.data_collator.tokenizer = Preprocessor_get_tokenizer
  /\ b.data_collator.model = Preprocessor_get_checkpoint(argv.size)

C10_SameModelSameInputs ==
  /\ Len(heap) <= 1
  /\ bundle # None => C10_Frozen(bundle)
  /\ training_args # None => training_args = Seq2SeqTrainingArguments
  /\ trainer # None =>
       /\ trainer.model = bundle.model
       /\ trainer.args = training_args
       /\ trainer.train_dataset = bundle.train_dataset
       /\ trainer.eval_dataset.encodings = Preprocessor_preprocess(argv.test_path)
       /\ trainer.tokenizer = bundle.tokenizer
       /\ trainer.data_collator = bundle.data_collator
  /\ \A i \in 1..Len(log) :
       /\ log[i].op = "construct" => log[i].info = log[i].epoch
       /\ log[i].op = "train" => log[i].info = log[i].epoch + 1
  /\ Len(heap) = 1 => heap[1] = Count("train")

C10_Witness ==
  /\ trainer # None
  /\ pc = "train" /\ epoch = 1
  /\ heap[trainer.model.ref] = 1
  /\ argv.train_path.examples # argv.test_path.examples

====
